---- MODULE Spec2Model ----
(***************************************************************************)
(* Patient repository of MediConnect (src/src/services/patientsService.ts) *)
(* as a state machine.  The store MOCK_DB is a sequence of JavaScript      *)
(* objects; an object is a function from its own keys to values, so that   *)
(* "key absent" and "key present" are different.  A JavaScript string is a *)
(* sequence of one-character strings.                                      *)
(***************************************************************************)
EXTENDS Integers, Sequences, FiniteSets, TLC

\* ------------------------------------------------------------------ bounds
MaxCalls == 3
MaxTicks == 1
ClockStart == 9
MaxPage == 2
MaxPageSize == 2
MaxLen == 3

\* ------------------------------------------------------- JavaScript values
\* the value undefined (a key may be present and hold it)
Undefined == <<"undefined">>
\* the value null returned by getPatientById, and the result of a void function
Null == [null |-> TRUE]
Void == [void |-> TRUE]
NoError == "none"
NotFound == "Paciente nao encontrado"

Has(o, k) == k \in DOMAIN o
Get(o, k) == IF k \in DOMAIN o THEN o[k] ELSE Undefined
\* ToBoolean of a string-or-undefined value: undefined and "" are falsy
Truthy(v) == v # Undefined /\ v # <<>>
\* object spread {...a, ...b}: own keys of both, b's value where b has the key
Spread(a, b) ==
  [k \in (DOMAIN a) \cup (DOMAIN b) |-> IF k \in DOMAIN b THEN b[k] ELSE a[k]]

DigitChars == <<"0", "1", "2", "3", "4", "5", "6", "7", "8", "9">>
IsDigit(c) == \E i \in 1..10 : DigitChars[i] = c
DigitValue(c) == (CHOOSE i \in 1..10 : DigitChars[i] = c) - 1
UpperToLower ==
  [A |-> "a", I |-> "i", L |-> "l", M |-> "m", S |-> "s", P |-> "p", X |-> "x"]
toLowerCase(s) ==
  [i \in 1..Len(s) |->
     IF s[i] \in DOMAIN UpperToLower THEN UpperToLower[s[i]] ELSE s[i]]
\* String.prototype.includes
includes(s, t) ==
  \E i \in 0..(Len(s) - Len(t)) : SubSeq(s, i + 1, i + Len(t)) = t

\* new Date(ms).toISOString(): a fixed-width rendering whose lexicographic
\* order is the order of the instants (two decimal digits of the clock here)
toISOString(t) == <<DigitChars[((t \div 10) % 10) + 1], DigitChars[(t % 10) + 1]>>
\* new Date(iso).getTime()
getTime(s) == DigitValue(s[1]) * 10 + DigitValue(s[2])
\* comparison of two ISO strings (string order, character by character)
IsoLess(a, b) ==
  \E i \in 1..Len(a) :
     /\ \A j \in 1..(i - 1) : a[j] = b[j]
     /\ DigitValue(a[i]) < DigitValue(b[i])
IsoLeq(a, b) == a = b \/ IsoLess(a, b)

\* ----------------------------------------------------------- onlyDigits
\* variant: replace without the g flag, only the first run of non-digits
\* is removed
onlyDigits_firstRun(v) ==
  LET s == IF Truthy(v) THEN v ELSE <<>>
      nd == {i \in 1..Len(s) : ~IsDigit(s[i])}
  IN  IF nd = {} THEN s
      ELSE LET a == CHOOSE i \in nd : \A j \in nd : i <= j
               rest == {i \in (a + 1)..Len(s) : IsDigit(s[i])}
               b == IF rest = {} THEN Len(s) + 1
                    ELSE CHOOSE i \in rest : \A j \in rest : i <= j
           IN  SubSeq(s, 1, a - 1) \o SubSeq(s, b, Len(s))

\* (v || "").replace(/\D+/g, "")
onlyDigits(v) == SelectSeq(IF Truthy(v) THEN v ELSE <<>>, IsDigit)

\* ------------------------------------------------------------ input pools
MariaSilva == <<"M", "a", "r", "i", "a", " ", "S", "i", "l", "v", "a">>
AnaLima == <<"A", "n", "a", " ", "L", "i", "m", "a">>
NameX == <<"X">>
Cpf1 == <<"1", "2", "3", "4", "5", "6", "7", "8", "9", "0", "1">>
Cpf2 == <<"1", "1", "1", "2", "2", "2", "3", "3", "3", "4", "4">>
Phone1 == <<"1", "1", "9", "9", "9", "9", "9", "8", "8", "8", "8">>
BirthDate1 == <<"1", "9", "9", "0", "-", "0", "5", "-", "1", "0">>
SaoPaulo == <<"S", "a", "o", " ", "P", "a", "u", "l", "o">>
TermMaria == <<"m", "a", "r", "i", "a">>
Term999 == <<"9", "9", "9">>
TermLima == <<"L", "I", "M", "A">>

Ids == {"p1", "p2", "p3"}

\* an instant later than every clock reading of the model
FutureTime == ClockStart + MaxTicks + 1

\* PatientInsert values.  Types are erased at run time, so a payload may
\* carry keys its type omits: the second one carries id and timestamps.
CreatePayloads ==
  { [full_name |-> MariaSilva, cpf |-> Cpf1, phone_primary |-> Phone1,
     birth_date |-> BirthDate1],
    [full_name |-> AnaLima, cpf |-> Cpf2, phone_primary |-> Phone1,
     birth_date |-> BirthDate1, id |-> "p1",
     created_at |-> toISOString(0),
     updated_at |-> toISOString(FutureTime)] }

\* PatientUpdate values for one id
UpdatePayloadsFor(id) ==
  { [id |-> id, full_name |-> NameX],
    [id |-> id, address_city |-> SaoPaulo,
     updated_at |-> toISOString(0)],
    [id |-> id, created_at |-> toISOString(FutureTime)],
    [id |-> id, created_at |-> Undefined] }
UpdatePayloads == UNION {UpdatePayloadsFor(id) : id \in Ids}

SearchTerms == {<<>>, TermMaria, Cpf1, Term999, TermLima}
Pages == 1..MaxPage
PageSizes == 1..MaxPageSize

\* ------------------------------------------------------------- repository
VARIABLES
  MOCK_DB,    \* the module-level array of Patient objects
  now,        \* the reading of the system clock (new Date())
  issued,     \* every id crypto.randomUUID() has returned so far
  op,         \* the call that produced this state
  arg,        \* its argument object
  ret,        \* its result
  err,        \* the error it threw, or NoError
  preDB,      \* MOCK_DB when the call started
  preIssued,  \* issued when the call started
  twice,      \* the call is deletePatient(id) right after deletePatient(id)
  calls,      \* the number of repository calls made so far
  currentPage,  \* PatientListPage: the page state
  searchInput,  \* PatientListPage: the search state, the text of the input
  debouncedSearch,  \* PatientListPage: the debounced copy of search
  timer,      \* useDebouncedValue: a timeout is pending
  queryData,  \* PatientListPage: data, the list result the query shows
  freshKeys,  \* the query keys whose cached result is not stale
  formValues,  \* PatientFormPage: the values of the form
  isFetchingAddress,  \* PatientFormPage: the flag of the CEP lookup
  inFlight    \* the postal codes of the lookups not yet answered

uiVars ==
  <<currentPage, searchInput, debouncedSearch, timer, queryData, freshKeys,
    formValues,
    isFetchingAddress, inFlight>>
vars ==
  <<MOCK_DB, now, issued, op, arg, ret, err, preDB, preIssued, twice, calls,
    currentPage, searchInput, debouncedSearch, timer, queryData, freshKeys,
    formValues,
    isFetchingAddress, inFlight>>

\* variant: a generator that avoids only the ids of the stored records
randomUUID_live(used) ==
  Ids \ {Get(MOCK_DB[i], "id") : i \in 1..Len(MOCK_DB)}

\* variant: a generator that may return a value it has returned before
randomUUID_any(used) == Ids

\* crypto.randomUUID(): the values it may return, given those it has returned
randomUUID(used) == Ids \ used

\* variant: the CPF compared with the term as typed, not with its digits
matchesSearch_rawTerm(p, term) ==
  IF ~Truthy(term) THEN TRUE
  ELSE LET t == toLowerCase(term)
           cpf == onlyDigits(p.cpf)
       IN  includes(toLowerCase(p.full_name), t) \/ includes(cpf, t)

matchesSearch(p, term) ==
  IF ~Truthy(term) THEN TRUE
  ELSE LET t == toLowerCase(term)
           cpf == onlyDigits(p.cpf)
       IN  includes(toLowerCase(p.full_name), t) \/ includes(cpf, onlyDigits(t))

\* the comparator's key: a.created_at ? new Date(a.created_at).getTime() : 0
sortKey(p) ==
  IF Truthy(Get(p, "created_at")) THEN getTime(p.created_at) ELSE 0

\* variant: the comparator reversed (ad - bd), smaller key first
insertDesc_asc(s, x) ==
  LET n == Cardinality({i \in 1..Len(s) : sortKey(s[i]) <= sortKey(x)})
  IN  SubSeq(s, 1, n) \o <<x>> \o SubSeq(s, n + 1, Len(s))

\* [...MOCK_DB].sort((a, b) => bd - ad): a stable sort, larger key first
insertDesc(s, x) ==
  LET n == Cardinality({i \in 1..Len(s) : sortKey(s[i]) >= sortKey(x)})
  IN  SubSeq(s, 1, n) \o <<x>> \o SubSeq(s, n + 1, Len(s))
RECURSIVE sortDesc(_)
sortDesc(s) ==
  IF s = <<>> THEN <<>>
  ELSE insertDesc(sortDesc(SubSeq(s, 1, Len(s) - 1)), s[Len(s)])

\* Array.prototype.slice(from, to)
relIndex(k, len) ==
  IF k < 0 THEN (IF len + k < 0 THEN 0 ELSE len + k)
  ELSE (IF k > len THEN len ELSE k)
slice(s, from, to) ==
  LET f == relIndex(from, Len(s))
      t == relIndex(to, Len(s))
  IN  IF f < t THEN SubSeq(s, f + 1, t) ELSE <<>>

\* variant: MOCK_DB.sort(...), which sorts the store itself
storeAfterList_inPlace(db) == sortDesc(db)

\* [...MOCK_DB].sort(...): the sort works on a copy, the store is as it was
storeAfterList(db) == db

\* variant: count taken from the page instead of the filtered set
listPatients_countPage(db, page, pageSize, search) ==
  LET sorted == sortDesc(db)
      filtered == SelectSeq(sorted, LAMBDA p : matchesSearch(p, search))
      from == (page - 1) * pageSize
      to == from + pageSize
      data == slice(filtered, from, to)
  IN  [data |-> data, count |-> Len(data)]

\* variant: the page number taken as 0-based
listPatients_zeroBased(db, page, pageSize, search) ==
  LET sorted == sortDesc(db)
      filtered == SelectSeq(sorted, LAMBDA p : matchesSearch(p, search))
      from == page * pageSize
      to == from + pageSize
  IN  [data |-> slice(filtered, from, to), count |-> Len(filtered)]

\* variant: a page past the end answered with the last page
listPatients_clampPage(db, page, pageSize, search) ==
  LET sorted == sortDesc(db)
      filtered == SelectSeq(sorted, LAMBDA p : matchesSearch(p, search))
      lastPage == (Len(filtered) + pageSize - 1) \div pageSize
      pg == IF page > lastPage /\ lastPage >= 1 THEN lastPage ELSE page
      from == (pg - 1) * pageSize
      to == from + pageSize
  IN  [data |-> slice(filtered, from, to), count |-> Len(filtered)]

listPatients(db, page, pageSize, search) ==
  LET sorted == sortDesc(db)
      filtered == SelectSeq(sorted, LAMBDA p : matchesSearch(p, search))
      count == Len(filtered)
      from == (page - 1) * pageSize
      to == from + pageSize
      data == slice(filtered, from, to)
  IN  [data |-> data, count |-> count]

\* MOCK_DB.findIndex((p) => p.id === id): 0-based, -1 when nothing matches
findIndex(db, id) ==
  IF \E i \in 1..Len(db) : Get(db[i], "id") = id
  THEN (CHOOSE i \in 1..Len(db) :
          /\ Get(db[i], "id") = id
          /\ \A j \in 1..(i - 1) : Get(db[j], "id") # id) - 1
  ELSE -1

\* variant: find with the test negated (!== for ===)
getPatientById_other(db, id) ==
  IF \E i \in 1..Len(db) : Get(db[i], "id") # id
  THEN db[CHOOSE i \in 1..Len(db) :
            /\ Get(db[i], "id") # id
            /\ \A j \in 1..(i - 1) : Get(db[j], "id") = id]
  ELSE Null

\* MOCK_DB.find((p) => p.id === id) ?? null
getPatientById(db, id) ==
  IF findIndex(db, id) < 0 THEN Null ELSE db[findIndex(db, id) + 1]

\* variant: MOCK_DB.unshift(entity), the new record put first
push_unshift(db, entity) == <<entity>> \o db

\* MOCK_DB.push(entity)
push(db, entity) == Append(db, entity)

\* variant: the payload spread last, so its own id and timestamps win
createEntity_payloadLast(payload, uuid, t) ==
  Spread([id |-> uuid, created_at |-> toISOString(t),
          updated_at |-> toISOString(t)], payload)

\* { ...payload, id: crypto.randomUUID(), created_at: now, updated_at: now }
createEntity(payload, uuid, t) ==
  Spread(payload, [id |-> uuid, created_at |-> toISOString(t),
                   updated_at |-> toISOString(t)])

\* variant: the existing record is replaced instead of merged
updateEntity_replace(existing, payload, t) ==
  Spread(payload, [updated_at |-> toISOString(t)])

\* variant: the stored values win over the payload's
updateEntity_existingWins(existing, payload, t) ==
  Spread(Spread(payload, existing), [updated_at |-> toISOString(t)])

\* variant: updated_at written before the payload is spread
updateEntity_stampFirst(existing, payload, t) ==
  Spread(Spread(existing, [updated_at |-> toISOString(t)]), payload)

\* { ...MOCK_DB[idx], ...payload, updated_at: new Date().toISOString() }
updateEntity(existing, payload, t) ==
  Spread(Spread(existing, payload), [updated_at |-> toISOString(t)])

\* variant: no throw on a missing id, the payload is stored as a new record
updatePatient_upsert(db, payload, t) ==
  LET idx == findIndex(db, payload.id)
      fresh == Spread(payload, [updated_at |-> toISOString(t)])
  IN  IF idx < 0
      THEN [db |-> Append(db, fresh), ret |-> fresh, err |-> NoError]
      ELSE LET updated == updateEntity(db[idx + 1], payload, t)
           IN  [db |-> [db EXCEPT ![idx + 1] = updated],
                ret |-> updated, err |-> NoError]

\* updatePatient: the store, the result and the error it leaves
updatePatient(db, payload, t) ==
  LET idx == findIndex(db, payload.id)
  IN  IF idx < 0
      THEN [db |-> db, ret |-> Void, err |-> NotFound]
      ELSE LET updated == updateEntity(db[idx + 1], payload, t)
           IN  [db |-> [db EXCEPT ![idx + 1] = updated],
                ret |-> updated, err |-> NoError]

\* variant: MOCK_DB.splice(findIndex, 1), which removes the last record
\* when findIndex is -1
deleteFilter_splice(db, id) ==
  LET idx == findIndex(db, id)
      at == IF idx < 0 THEN Len(db) ELSE idx + 1
  IN  SubSeq(db, 1, at - 1) \o SubSeq(db, at + 1, Len(db))

\* variant: the filter keeps the matching records (=== for !==)
deleteFilter_keep(db, id) == SelectSeq(db, LAMBDA p : Get(p, "id") = id)

\* MOCK_DB.filter((p) => p.id !== id)
deleteFilter(db, id) == SelectSeq(db, LAMBDA p : Get(p, "id") # id)

\* ------------------------------------------------------------ patient form
\* the text fields of the form, all "" in defaultValues; birth_date is
\* undefined there
FormTextKeys ==
  {"full_name", "social_name", "cpf", "rg", "other_document_type",
   "other_document_number", "gender", "ethnicity", "race", "nationality",
   "birth_city", "birth_state", "profession", "marital_status",
   "mother_name", "father_name", "responsible_name", "responsible_cpf",
   "legacy_code", "email", "phone_primary", "phone_secondary",
   "address_zip_code", "address_street", "address_number",
   "address_complement", "address_district", "address_city",
   "address_state", "observations"}
DefaultValues ==
  [k \in FormTextKeys \cup {"birth_date"} |->
     IF k = "birth_date" THEN Undefined ELSE <<>>]

\* a ?? d
Nullish(a, d) == IF a = Undefined THEN d ELSE a

\* the number a string of decimal digits denotes
RECURSIVE Num(_)
Num(s) ==
  IF s = <<>> THEN 0
  ELSE Num(SubSeq(s, 1, Len(s) - 1)) * 10 + DigitValue(s[Len(s)])
\* a Date value: its year, month and day
Date(y, m, d) == <<"date", y, m, d>>
isDate(v) == Len(v) = 4 /\ v[1] = "date"
\* parseISO("yyyy-MM-dd"): the calendar date
parseISO(s) ==
  Date(Num(SubSeq(s, 1, 4)), Num(SubSeq(s, 6, 7)), Num(SubSeq(s, 9, 10)))
\* a number in w decimal digits, zero-padded
RECURSIVE Pow10(_)
Pow10(n) == IF n = 0 THEN 1 ELSE 10 * Pow10(n - 1)
PadNum(n, w) == [i \in 1..w |-> DigitChars[((n \div Pow10(w - i)) % 10) + 1]]
\* format(date, "yyyy-MM-dd")
formatDate(v) ==
  PadNum(v[2], 4) \o <<"-">> \o PadNum(v[3], 2) \o <<"-">> \o PadNum(v[4], 2)

\* the load effect of PatientFormPage for the route id ("" on /patients/new):
\* the form values it leaves
loadEffect(db, id) ==
  IF id = "" THEN DefaultValues
  ELSE LET p == getPatientById(db, id)
       IN  IF p = Null THEN DefaultValues
           ELSE Spread(p,
                  [cpf |-> p.cpf,
                   phone_primary |-> p.phone_primary,
                   phone_secondary |-> Nullish(Get(p, "phone_secondary"), <<>>),
                   address_zip_code |-> Nullish(Get(p, "address_zip_code"), <<>>),
                   birth_date |-> IF Truthy(Get(p, "birth_date"))
                                  THEN parseISO(p.birth_date) ELSE Undefined])

\* ------------------------------------------------------------- FormSchema
\* the result of one field's schema: whether it validates, and its output
\* z.string().email(): one "@" with text before it and a dotted name after
isEmail(s) ==
  \E a \in 2..(Len(s) - 1) :
     /\ s[a] = "@"
     /\ \A i \in 1..Len(s) : s[i] = "@" => i = a
     /\ \E d \in (a + 2)..(Len(s) - 1) : s[d] = "."

CpfLength == 11
PhoneMinLength == 10

\* variant: the CPF validated on its digits but passed on as typed
parseCpf_raw(v) ==
  [ok |-> v # Undefined /\ Len(v) >= 1 /\ Len(onlyDigits(v)) = CpfLength, out |-> v]

\* cpf: string, min(1), transform onlyDigits, refine length === 11
parseCpf(v) ==
  [ok |-> v # Undefined /\ Len(v) >= 1 /\ Len(onlyDigits(v)) = CpfLength,
   out |-> onlyDigits(v)]

\* variant: the phone transformed but never refined
parsePhone_unrefined(v) ==
  [ok |-> v # Undefined /\ Len(v) >= 1, out |-> onlyDigits(v)]

\* phone_primary: string, min(1), transform onlyDigits, refine length >= 10
parsePhone(v) ==
  [ok |-> v # Undefined /\ Len(v) >= 1 /\ Len(onlyDigits(v)) >= PhoneMinLength,
   out |-> onlyDigits(v)]

\* responsible_cpf: optional string, transform (v ? onlyDigits(v) : undefined),
\* refine !v || v.length === 11
parseResponsibleCpf(v) ==
  LET o == IF Truthy(v) THEN onlyDigits(v) ELSE Undefined
  IN  [ok |-> ~Truthy(o) \/ Len(o) = CpfLength, out |-> o]

parseField(k, v) ==
  CASE k = "full_name" -> [ok |-> v # Undefined /\ Len(v) >= 1, out |-> v]
    [] k = "cpf" -> parseCpf(v)
    [] k = "phone_primary" -> parsePhone(v)
    [] k = "responsible_cpf" -> parseResponsibleCpf(v)
    [] k \in {"phone_secondary", "address_zip_code"} ->
         [ok |-> TRUE, out |-> IF Truthy(v) THEN onlyDigits(v) ELSE Undefined]
    [] k = "email" ->
         [ok |-> ~Truthy(v) \/ isEmail(v),
          out |-> IF Truthy(v) THEN v ELSE Undefined]
    [] k = "birth_date" -> [ok |-> isDate(v), out |-> v]
    [] OTHER -> [ok |-> TRUE, out |-> IF Truthy(v) THEN v ELSE Undefined]

\* FormSchema.safeParse(values): keys the schema does not name are dropped;
\* a key whose output is undefined is kept when the input has the key
FormSchemaParse(values) ==
  LET keys == FormTextKeys \cup {"birth_date"}
      res == [k \in keys |-> parseField(k, Get(values, k))]
      outKeys == {k \in keys : Has(values, k) \/ res[k].out # Undefined}
  IN  [ok |-> \A k \in keys : res[k].ok,
       data |-> [k \in outKeys |-> res[k].out]]

ToastCreated == "Paciente criado com sucesso"
ToastUpdated == "Paciente atualizado com sucesso"
ToastError == "Erro ao salvar paciente"
NoToast == ""

\* variant: a failed update falls back to creating the record
onSubmit_createOnFailure(db, values, id, uuid, t) ==
  LET payload == Spread(values, [birth_date |-> formatDate(values.birth_date)])
      r == updatePatient(db, Spread([id |-> id], payload), t)
  IN  IF id # "" /\ r.err = NoError
      THEN [db |-> r.db, called |-> "update", payload |-> payload,
            toast |-> ToastUpdated, navigated |-> TRUE, err |-> NoError]
      ELSE [db |-> push(db, createEntity(payload, uuid, t)),
            called |-> IF id # "" THEN "update" ELSE "create",
            payload |-> payload,
            toast |-> ToastCreated, navigated |-> TRUE,
            err |-> IF id # "" THEN r.err ELSE NoError]

\* onSubmit(values) on the route id ("" on /patients/new): the store it
\* leaves, what it called with which payload, the toast and the navigation
onSubmit(db, values, id, uuid, t) ==
  LET payload == Spread(values, [birth_date |-> formatDate(values.birth_date)])
  IN  IF id # ""
      THEN LET r == updatePatient(db, Spread([id |-> id], payload), t)
           IN  IF r.err = NoError
               THEN [db |-> r.db, called |-> "update", payload |-> payload,
                     toast |-> ToastUpdated, navigated |-> TRUE,
                     err |-> NoError]
               ELSE [db |-> r.db, called |-> "update", payload |-> payload,
                     toast |-> ToastError, navigated |-> FALSE,
                     err |-> r.err]
      ELSE [db |-> push(db, createEntity(payload, uuid, t)),
            called |-> "create", payload |-> payload,
            toast |-> ToastCreated, navigated |-> TRUE, err |-> NoError]

\* form.handleSubmit(onSubmit): onSubmit runs on the parsed values, and only
\* when the schema validates
handleSubmit(db, values, id, uuid, t) ==
  LET parsed == FormSchemaParse(values)
  IN  IF parsed.ok THEN onSubmit(db, parsed.data, id, uuid, t)
      ELSE [db |-> db, called |-> "none", payload |-> Void,
            toast |-> NoToast, navigated |-> FALSE, err |-> NoError]

\* the pages as they are before they are mounted
InitUi ==
  /\ currentPage = 1
  /\ searchInput = <<>>
  /\ debouncedSearch = <<>>
  /\ timer = FALSE
  /\ queryData = [data |-> <<>>, count |-> 0]
  /\ freshKeys = {}
  /\ formValues = DefaultValues
  /\ isFetchingAddress = FALSE
  /\ inFlight = <<>>

NoArg == [none |-> TRUE]

Init ==
  /\ MOCK_DB = <<>>
  /\ now = ClockStart
  /\ issued = {}
  /\ op = "init"
  /\ arg = NoArg
  /\ ret = Void
  /\ err = NoError
  /\ preDB = <<>>
  /\ preIssued = {}
  /\ twice = FALSE
  /\ calls = 0
  /\ InitUi

\* the system clock advances between calls
Tick ==
  /\ now < ClockStart + MaxTicks
  /\ now' = now + 1
  /\ op' = "tick"
  /\ arg' = NoArg
  /\ ret' = Void
  /\ err' = NoError
  /\ preDB' = MOCK_DB
  /\ preIssued' = issued
  /\ twice' = FALSE
  /\ UNCHANGED <<MOCK_DB, issued, calls>>
  /\ UNCHANGED uiVars

CreatePatient(payload, uuid) ==
  /\ calls < MaxCalls
  /\ calls' = calls + 1
  /\ uuid \in randomUUID(issued)
  /\ LET entity == createEntity(payload, uuid, now)
     IN  /\ MOCK_DB' = push(MOCK_DB, entity)
         /\ ret' = entity
  /\ issued' = issued \cup {uuid}
  /\ op' = "create"
  /\ arg' = payload
  /\ err' = NoError
  /\ preDB' = MOCK_DB
  /\ preIssued' = issued
  /\ twice' = FALSE
  /\ UNCHANGED now
  /\ UNCHANGED uiVars

UpdatePatient(payload) ==
  /\ calls < MaxCalls
  /\ calls' = calls + 1
  /\ LET r == updatePatient(MOCK_DB, payload, now)
     IN  /\ MOCK_DB' = r.db
         /\ ret' = r.ret
         /\ err' = r.err
  /\ op' = "update"
  /\ arg' = payload
  /\ preDB' = MOCK_DB
  /\ preIssued' = issued
  /\ twice' = FALSE
  /\ UNCHANGED <<now, issued>>
  /\ UNCHANGED uiVars

DeletePatient(id) ==
  /\ calls < MaxCalls
  /\ calls' = calls + 1
  /\ MOCK_DB' = deleteFilter(MOCK_DB, id)
  /\ op' = "delete"
  /\ arg' = [id |-> id]
  /\ ret' = Void
  /\ err' = NoError
  /\ preDB' = MOCK_DB
  /\ preIssued' = issued
  /\ twice' = (op = "delete" /\ arg = [id |-> id])
  /\ UNCHANGED <<now, issued>>
  /\ UNCHANGED uiVars

ListPatients(page, pageSize, search) ==
  /\ calls < MaxCalls
  /\ calls' = calls + 1
  /\ ret' = listPatients(MOCK_DB, page, pageSize, search)
  /\ op' = "list"
  /\ arg' = [page |-> page, pageSize |-> pageSize, search |-> search]
  /\ err' = NoError
  /\ MOCK_DB' = storeAfterList(MOCK_DB)
  /\ preDB' = MOCK_DB
  /\ preIssued' = issued
  /\ twice' = FALSE
  /\ UNCHANGED <<now, issued>>
  /\ UNCHANGED uiVars

GetPatientById(id) ==
  /\ calls < MaxCalls
  /\ calls' = calls + 1
  /\ ret' = getPatientById(MOCK_DB, id)
  /\ op' = "getById"
  /\ arg' = [id |-> id]
  /\ err' = NoError
  /\ preDB' = MOCK_DB
  /\ preIssued' = issued
  /\ twice' = FALSE
  /\ UNCHANGED <<MOCK_DB, now, issued>>
  /\ UNCHANGED uiVars

\* PatientFormPage mounted on a route: its load effect
FormLoad(id) ==
  /\ calls < MaxCalls
  /\ calls' = calls + 1
  /\ ret' = [form |-> loadEffect(MOCK_DB, id)]
  /\ op' = "formLoad"
  /\ arg' = [id |-> id]
  /\ err' = NoError
  /\ preDB' = MOCK_DB
  /\ preIssued' = issued
  /\ twice' = FALSE
  /\ UNCHANGED <<MOCK_DB, now, issued>>
  /\ UNCHANGED uiVars

RouteIds == Ids \cup {""}

Next ==
  \/ Tick
  \/ \E payload \in CreatePayloads, uuid \in Ids : CreatePatient(payload, uuid)
  \/ \E payload \in UpdatePayloads : UpdatePatient(payload)
  \/ \E id \in Ids : DeletePatient(id)
  \/ \E page \in Pages, pageSize \in PageSizes, search \in SearchTerms :
       ListPatients(page, pageSize, search)
  \/ \E id \in Ids : GetPatientById(id)
  \/ \E id \in RouteIds : FormLoad(id)

Spec == Init /\ [][Next]_vars

\* ---------------------------------------------------------------- listing
\* The listing of stores that already hold a record: the store after one
\* createPatient at the instant before ClockStart, its created_at kept or
\* cleared by updatePatient({id, created_at: undefined}); calls counts the
\* calls made from there.
SeedPayload ==
  [full_name |-> MariaSilva, cpf |-> Cpf1, phone_primary |-> Phone1,
   birth_date |-> BirthDate1]
SeedStore(cleared) ==
  LET created == <<createEntity(SeedPayload, "p1", ClockStart - 1)>>
  IN  IF cleared
      THEN updatePatient(created, [id |-> "p1", created_at |-> Undefined],
                         ClockStart - 1).db
      ELSE created

InitList ==
  /\ \E cleared \in BOOLEAN : MOCK_DB = SeedStore(cleared)
  /\ now = ClockStart
  /\ issued = {"p1"}
  /\ op = "tick"
  /\ arg = NoArg
  /\ ret = Void
  /\ err = NoError
  /\ preDB = MOCK_DB
  /\ preIssued = issued
  /\ twice = FALSE
  /\ calls = 0
  /\ InitUi

CreatedAtPayloads ==
  {p \in UpdatePayloads : Has(p, "created_at")}

NextList ==
  \/ Tick
  \/ \E payload \in CreatePayloads, uuid \in Ids : CreatePatient(payload, uuid)
  \/ \E payload \in CreatedAtPayloads : UpdatePatient(payload)
  \/ \E page \in Pages, pageSize \in PageSizes, search \in SearchTerms :
       ListPatients(page, pageSize, search)

SpecList == InitList /\ [][NextList]_vars

\* ------------------------------------------------------- form submission
\* what a user may have in the form when submitting: names as typed, CPF
\* and phone as typed over the mask, the birth date picked or not; the form
\* has no input for responsible_cpf, which stays as defaulted or loaded
MaskedCpf2 == <<"1", "1", "1", ".", "2", "2", "2", ".", "3", "3", "3", "-", "4", "4">>
ShortCpf == <<"1", "2", "3", ".", "4", "5", "6">>
MaskedPhone1 == <<"(", "1", "1", ")", " ", "9", "9", "9", "9", "9", "-", "8", "8", "8", "8">>
ShortPhone == <<"9", "9", "9", "9", "-", "8", "8", "8", "8">>
ValidForm ==
  Spread(DefaultValues,
         [full_name |-> AnaLima, cpf |-> MaskedCpf2,
          phone_primary |-> MaskedPhone1, birth_date |-> Date(1990, 5, 10),
          address_city |-> SaoPaulo])
RawForms ==
  { ValidForm,
    Spread(ValidForm, [cpf |-> ShortCpf]),
    Spread(ValidForm, [phone_primary |-> ShortPhone]),
    Spread(ValidForm, [full_name |-> NameX, cpf |-> Cpf1]),
    Spread(ValidForm, [birth_date |-> Undefined]),
    DefaultValues }

\* the submit button of PatientFormPage on a route, with the values typed,
\* or with the values its load effect put in the form
SubmitForm(values, id, uuid) ==
  /\ calls < MaxCalls
  /\ calls' = calls + 1
  /\ id = "" => uuid \in randomUUID(issued)
  /\ LET r == handleSubmit(MOCK_DB, values, id, uuid, now)
     IN  /\ MOCK_DB' = r.db
         /\ ret' = [called |-> r.called, payload |-> r.payload,
                    toast |-> r.toast, navigated |-> r.navigated]
         /\ err' = r.err
         /\ issued' = IF r.called = "create" THEN issued \cup {uuid} ELSE issued
  /\ op' = "submit"
  /\ arg' = [id |-> id, values |-> values]
  /\ preDB' = MOCK_DB
  /\ preIssued' = issued
  /\ twice' = FALSE
  /\ UNCHANGED now
  /\ UNCHANGED uiVars

NextForm ==
  \/ \E values \in RawForms, uuid \in Ids : SubmitForm(values, "", uuid)
  \/ \E values \in RawForms, id \in Ids : SubmitForm(values, id, "")
  \/ \E id \in Ids : SubmitForm(loadEffect(MOCK_DB, id), id, "")
  \/ \E id \in Ids : DeletePatient(id)

SpecForm == Init /\ [][NextForm]_vars

\* -------------------------------------------------------- PatientListPage
PAGE_SIZE == 10
SeedCount == 11

\* Math.max(1, Math.ceil(total / PAGE_SIZE))
totalPages(total) ==
  LET c == (total + PAGE_SIZE - 1) \div PAGE_SIZE
  IN  IF c > 1 THEN c ELSE 1

\* the key of the list query, ["patients", { page, search }]
queryKey(p, s) == [page |-> p, search |-> s]
\* queryFn
queryFn(db, key) == listPatients(db, key.page, PAGE_SIZE, key.search)
\* useQuery on a key: the calls of queryFn it makes, none while the cached
\* result of the key is younger than staleTime
useQuery(key, cached) == IF key \in cached THEN <<>> ELSE <<key>>

\* a store of SeedCount patients saved through the form, the oldest with
\* another CPF than the rest
Term111 == <<"1", "1", "1">>
SearchTexts == {<<>>, Term111, TermMaria}
PageSeed ==
  [i \in 1..SeedCount |->
     createEntity([SeedPayload EXCEPT !.cpf = IF i = 1 THEN Cpf2 ELSE Cpf1],
                  "s" \o ToString(i), i)]

\* PatientListPage mounted on the seeded store, its first result shown
InitPage ==
  /\ MOCK_DB = PageSeed
  /\ now = ClockStart
  /\ issued = {PageSeed[i].id : i \in 1..SeedCount}
  /\ op = "mount"
  /\ arg = NoArg
  /\ ret = [queries |-> <<queryKey(1, <<>>)>>]
  /\ err = NoError
  /\ preDB = MOCK_DB
  /\ preIssued = issued
  /\ twice = FALSE
  /\ calls = 0
  /\ currentPage = 1
  /\ searchInput = <<>>
  /\ debouncedSearch = <<>>
  /\ timer = FALSE
  /\ queryData = queryFn(PageSeed, queryKey(1, <<>>))
  /\ freshKeys = {queryKey(1, <<>>)}
  /\ formValues = DefaultValues
  /\ isFetchingAddress = FALSE
  /\ inFlight = <<>>

\* what every event of the list page leaves alone
PageFrame ==
  /\ err' = NoError
  /\ preDB' = MOCK_DB
  /\ preIssued' = issued
  /\ twice' = FALSE
  /\ UNCHANGED <<now, issued, formValues, isFetchingAddress, inFlight>>

\* setPage(p) with the debounced term unchanged: the query moves to the key
\* of the new page
setPage(p) ==
  LET key == queryKey(p, debouncedSearch)
  IN  /\ currentPage' = p
      /\ ret' = [queries |-> useQuery(key, freshKeys)]
      /\ queryData' = queryFn(MOCK_DB, key)
      /\ freshKeys' = freshKeys \cup {key}

\* the button "Proxima": disabled when page >= totalPages,
\* setPage((p) => Math.min(totalPages, p + 1))
NextPage ==
  /\ ~(currentPage >= totalPages(queryData.count))
  /\ setPage(IF currentPage + 1 < totalPages(queryData.count)
             THEN currentPage + 1 ELSE totalPages(queryData.count))
  /\ op' = "nextPage"
  /\ arg' = NoArg
  /\ PageFrame
  /\ UNCHANGED <<MOCK_DB, calls, searchInput, debouncedSearch, timer>>

\* the button "Anterior": disabled when page <= 1,
\* setPage((p) => Math.max(1, p - 1))
PrevPage ==
  /\ ~(currentPage <= 1)
  /\ setPage(IF currentPage - 1 > 1 THEN currentPage - 1 ELSE 1)
  /\ op' = "prevPage"
  /\ arg' = NoArg
  /\ PageFrame
  /\ UNCHANGED <<MOCK_DB, calls, searchInput, debouncedSearch, timer>>

\* the search input's onChange: setSearch, and the effect of
\* useDebouncedValue replaces the pending timeout
TypeSearch(text) ==
  /\ text # searchInput
  /\ searchInput' = text
  /\ timer' = TRUE
  /\ op' = "type"
  /\ arg' = [text |-> text]
  /\ ret' = [queries |-> <<>>]
  /\ PageFrame
  /\ UNCHANGED <<MOCK_DB, calls, currentPage, debouncedSearch, queryData,
                 freshKeys>>

\* the timeout of useDebouncedValue: setDebounced(value). When the term
\* changes the page renders with the new term and the page it had, the
\* query moves to that key, and then the effect on [debouncedSearch] runs
\* setPage(1), after which the query moves to page 1 of the new term
DebounceFire ==
  /\ timer
  /\ timer' = FALSE
  /\ debouncedSearch' = searchInput
  /\ LET first == queryKey(currentPage, searchInput)
         reset == queryKey(1, searchInput)
         q1 == useQuery(first, freshKeys)
         q2 == useQuery(reset, freshKeys \cup {first})
     IN  IF searchInput # debouncedSearch
         THEN /\ currentPage' = 1
              /\ ret' = [queries |-> q1 \o q2]
              /\ queryData' = queryFn(MOCK_DB, reset)
              /\ freshKeys' = freshKeys \cup {first, reset}
         ELSE /\ ret' = [queries |-> <<>>]
              /\ UNCHANGED <<currentPage, queryData, freshKeys>>
  /\ op' = "debounce"
  /\ arg' = [from |-> debouncedSearch, to |-> searchInput,
             page |-> currentPage]
  /\ PageFrame
  /\ UNCHANGED <<MOCK_DB, calls, searchInput>>

\* the rows whose delete a user confirms: the first or the last one shown
DeleteRows(shown) == {1, Len(shown)} \cap (1..Len(shown))

\* deleteMut.mutate(id) for a row shown: deletePatient(id), then onSuccess
\* invalidates every list query and the one on screen is fetched again
DeleteRow(i) ==
  /\ calls < MaxCalls
  /\ calls' = calls + 1
  /\ i \in DeleteRows(queryData.data)
  /\ LET id == queryData.data[i].id
         key == queryKey(currentPage, debouncedSearch)
     IN  /\ MOCK_DB' = deleteFilter(MOCK_DB, id)
         /\ arg' = [id |-> id]
         /\ ret' = [queries |-> <<key>>]
         /\ queryData' = queryFn(deleteFilter(MOCK_DB, id), key)
         /\ freshKeys' = {key}
  /\ op' = "deleteRow"
  /\ PageFrame
  /\ UNCHANGED <<currentPage, searchInput, debouncedSearch, timer>>

\* staleTime (10 s) passes over the cached results
Stale ==
  /\ freshKeys # {}
  /\ freshKeys' = {}
  /\ op' = "stale"
  /\ arg' = NoArg
  /\ ret' = [queries |-> <<>>]
  /\ PageFrame
  /\ UNCHANGED <<MOCK_DB, calls, currentPage, searchInput, debouncedSearch,
                 timer, queryData>>

\* the window regains focus: a stale query on screen is fetched again
Refetch ==
  /\ queryKey(currentPage, debouncedSearch) \notin freshKeys
  /\ setPage(currentPage)
  /\ op' = "refetch"
  /\ arg' = NoArg
  /\ PageFrame
  /\ UNCHANGED <<MOCK_DB, calls, searchInput, debouncedSearch, timer>>

NextPageSpec ==
  \/ NextPage
  \/ PrevPage
  \/ \E text \in SearchTexts : TypeSearch(text)
  \/ DebounceFire
  \/ \E i \in 1..PAGE_SIZE : DeleteRow(i)
  \/ Stale
  \/ Refetch

SpecPage == InitPage /\ [][NextPageSpec]_vars

\* ------------------------------------------------------------ CEP lookup
CepLength == 8
MaxLookups == 2

\* fetchAddressByZipCode(zip): the static address, after its latency
RuaDasPalmeiras == <<"R", "u", "a", " ", "d", "a", "s", " ", "P", "a", "l", "m", "e", "i", "r", "a", "s">>
Centro == <<"C", "e", "n", "t", "r", "o">>
UfSP == <<"S", "P">>
fetchAddressByZipCode(zip) ==
  [street |-> RuaDasPalmeiras, district |-> Centro, city |-> SaoPaulo,
   state |-> UfSP]

\* what a user may have typed in the CEP input
MaskedCep == <<"0", "1", "0", "0", "1", "-", "0", "0", "0">>
PlainCep == <<"2", "0", "0", "4", "0", "0", "2", "0">>
ShortCep == <<"0", "1", "0", "0">>
LongCep == <<"1", "2", "3", "4", "5", "6", "7", "8", "9">>
CepTexts == {<<>>, MaskedCep, PlainCep, ShortCep, LongCep}

\* PatientFormPage on /patients/new, nothing typed yet
InitCep ==
  /\ MOCK_DB = <<>>
  /\ now = ClockStart
  /\ issued = {}
  /\ op = "mount"
  /\ arg = NoArg
  /\ ret = Void
  /\ err = NoError
  /\ preDB = <<>>
  /\ preIssued = {}
  /\ twice = FALSE
  /\ calls = 0
  /\ InitUi

\* what every event of the CEP input leaves alone
CepFrame ==
  /\ err' = NoError
  /\ UNCHANGED <<MOCK_DB, now, issued, preDB, preIssued, twice, calls,
                 currentPage, searchInput, debouncedSearch, timer, queryData,
                 freshKeys>>

\* the CEP input's onChange: field.onChange(e.target.value)
TypeCep(text) ==
  /\ text # formValues.address_zip_code
  /\ formValues' = [formValues EXCEPT !.address_zip_code = text]
  /\ op' = "typeCep"
  /\ arg' = [text |-> text]
  /\ ret' = Void
  /\ CepFrame
  /\ UNCHANGED <<isFetchingAddress, inFlight>>

\* handleCepBlur up to its await: return unless the digits of the field
\* are 8, else setFetchingAddress(true) and start the lookup
CepBlur ==
  /\ Len(inFlight) < MaxLookups
  /\ LET cep == onlyDigits(IF Truthy(Get(formValues, "address_zip_code"))
                          THEN formValues.address_zip_code ELSE <<>>)
     IN  /\ arg' = [cep |-> cep]
         /\ IF Len(cep) # CepLength
            THEN /\ ret' = [started |-> FALSE]
                 /\ UNCHANGED <<isFetchingAddress, inFlight>>
            ELSE /\ ret' = [started |-> TRUE]
                 /\ isFetchingAddress' = TRUE
                 /\ inFlight' = Append(inFlight, cep)
  /\ op' = "cepBlur"
  /\ CepFrame
  /\ UNCHANGED formValues

\* handleCepBlur after its await, for the lookup started first (all take the
\* same latency): the four setValue calls, then finally
\* setFetchingAddress(false)
LookupDone ==
  /\ inFlight # <<>>
  /\ LET res == fetchAddressByZipCode(Head(inFlight))
     IN  formValues' = [formValues EXCEPT !.address_street = res.street,
                                          !.address_district = res.district,
                                          !.address_city = res.city,
                                          !.address_state = res.state]
  /\ isFetchingAddress' = FALSE
  /\ inFlight' = Tail(inFlight)
  /\ op' = "lookupDone"
  /\ arg' = [cep |-> Head(inFlight)]
  /\ ret' = Void
  /\ CepFrame

NextCep ==
  \/ \E text \in CepTexts : TypeCep(text)
  \/ CepBlur
  \/ LookupDone

SpecCep == InitCep /\ [][NextCep]_vars

\* ------------------------------------------------------ onlyDigits alone
\* onlyDigits applied to every text of at most MaxLen characters over a
\* small alphabet, and to an absent value
DigitAlphabet == {"0", "7", "a", "-", "."}
DigitInputs ==
  UNION {[1..n -> DigitAlphabet] : n \in 0..MaxLen} \cup {Undefined}

InitDigits ==
  /\ MOCK_DB = <<>>
  /\ now = ClockStart
  /\ issued = {}
  /\ op = "input"
  /\ \E v \in DigitInputs : arg = [v |-> v]
  /\ ret = Void
  /\ err = NoError
  /\ preDB = <<>>
  /\ preIssued = {}
  /\ twice = FALSE
  /\ calls = 0
  /\ InitUi

OnlyDigitsCall ==
  /\ op = "input"
  /\ op' = "onlyDigits"
  /\ ret' = [out |-> onlyDigits(arg.v)]
  /\ calls' = calls + 1
  /\ UNCHANGED <<MOCK_DB, now, issued, arg, err, preDB, preIssued, twice>>
  /\ UNCHANGED uiVars

NextDigits == OnlyDigitsCall

SpecDigits == InitDigits /\ [][NextDigits]_vars

\* ------------------------------------------------------------------ claims
\* the record an update call found, and whether the call succeeded
UpdateOk == op = "update" /\ err = NoError
OldRecord == preDB[findIndex(preDB, arg.id) + 1]
IdsOf(db) == {Get(db[i], "id") : i \in 1..Len(db)}

\* C1: the record createPatient returns has a non-empty id that no earlier
\* create was given (ids of deleted records included), and its created_at
\* equals its updated_at.
Thm_C1_CreateFreshId ==
  op = "create" =>
    /\ Has(ret, "id") /\ ret.id # "" /\ ret.id \in Ids
    /\ ret.id \notin preIssued
    /\ ret.created_at = ret.updated_at
    /\ ret.created_at = toISOString(now)
\* a create after an earlier create whose record has been deleted
Wit_C1_CreateAfterDelete ==
  /\ op = "create"
  /\ \E i \in preIssued : i \notin IdsOf(preDB)

\* C2: no two records of the store have the same id.
Thm_C2_UniqueIds ==
  \A i, j \in 1..Len(MOCK_DB) :
     i # j => Get(MOCK_DB[i], "id") # Get(MOCK_DB[j], "id")
\* a store of two records, one of them just updated
Wit_C2_TwoRecords == UpdateOk /\ Len(MOCK_DB) >= 2

\* C3: a successful updatePatient overlays the keys of the payload on the
\* existing record, keeps every other key (updated_at apart), returns the
\* record it stored, and getPatientById on the id gives that record.
Thm_C3_UpdateMerges ==
  UpdateOk =>
    /\ DOMAIN ret = (DOMAIN OldRecord) \cup (DOMAIN arg) \cup {"updated_at"}
    /\ \A k \in (DOMAIN arg) \ {"updated_at"} : ret[k] = arg[k]
    /\ \A k \in (DOMAIN OldRecord) \ ((DOMAIN arg) \cup {"updated_at"}) :
          ret[k] = OldRecord[k]
    /\ MOCK_DB[findIndex(preDB, arg.id) + 1] = ret
    /\ getPatientById(MOCK_DB, arg.id) = ret
    /\ Len(MOCK_DB) = Len(preDB)
    /\ \A i \in 1..Len(preDB) :
          i # findIndex(preDB, arg.id) + 1 => MOCK_DB[i] = preDB[i]
\* an update {id, full_name: X} of a record that had another name
Wit_C3_NameChanged ==
  /\ UpdateOk
  /\ Has(arg, "full_name")
  /\ OldRecord.full_name # ret.full_name
  /\ ret.cpf = OldRecord.cpf

\* C4: a successful updatePatient leaves id and created_at as they were,
\* whatever the payload holds for them.
Cex_C4_CreatedAtImmutable ==
  UpdateOk =>
    /\ Get(ret, "id") = Get(OldRecord, "id")
    /\ Get(ret, "created_at") = Get(OldRecord, "created_at")

\* C5: updatePatient on an id no record has fails with NotFound and leaves
\* the store as it was; it fails in no other case.
Thm_C5_UpdateNotFound ==
  op = "update" =>
    /\ (arg.id \notin IdsOf(preDB)) <=> (err = NotFound)
    /\ err = NotFound => (MOCK_DB = preDB /\ ret = Void)
\* a failed update on a store that holds a record
Wit_C5_NotFoundNonEmpty ==
  op = "update" /\ err = NotFound /\ Len(preDB) >= 1

\* C6 as claimed: after a successful updatePatient the record's updated_at
\* is strictly greater than before.
Cex_C6_StrictlyGreater ==
  UpdateOk => IsoLess(OldRecord.updated_at, ret.updated_at)
\* C6 as amended: updated_at is the clock reading of the update; it is never
\* smaller than before, strictly greater exactly when the clock has moved
\* since the record was last written, and equal at the same instant.
Thm_C6_UpdatedAtIsClock ==
  UpdateOk =>
    /\ ret.updated_at = toISOString(now)
    /\ IsoLeq(OldRecord.updated_at, ret.updated_at)
    /\ IsoLess(OldRecord.updated_at, ret.updated_at)
         <=> (getTime(OldRecord.updated_at) < now)
    /\ (getTime(OldRecord.updated_at) = now)
         => (ret.updated_at = OldRecord.updated_at)
\* an update at the clock instant of the record's previous write
Wit_C6_SameInstant ==
  UpdateOk /\ ret.updated_at = OldRecord.updated_at

\* C7: every stored record has created_at <= updated_at.
Cex_C7_CreatedBeforeUpdated ==
  \A i \in 1..Len(MOCK_DB) :
     Truthy(Get(MOCK_DB[i], "created_at")) =>
        IsoLeq(MOCK_DB[i].created_at, MOCK_DB[i].updated_at)

\* C8: deletePatient(id) called twice leaves the store that one call
\* leaves, for the calls made and for every id on every reachable store.
Thm_C8_DeleteIdempotent ==
  /\ (op = "delete" /\ twice) => MOCK_DB = preDB
  /\ \A id \in Ids :
        deleteFilter(deleteFilter(MOCK_DB, id), id) = deleteFilter(MOCK_DB, id)
\* the second of two deletes of an id that had been created
Wit_C8_SecondDelete ==
  op = "delete" /\ twice /\ arg.id \in issued

\* C9: deletePatient(id) removes the records with that id and no other,
\* keeps the rest in order, raises nothing, and changes nothing when no
\* record has the id.
Kept == {i \in 1..Len(preDB) : Get(preDB[i], "id") # arg.id}
Rank(i) == Cardinality({j \in Kept : j <= i})
Thm_C9_DeleteFrame ==
  op = "delete" =>
    /\ err = NoError /\ ret = Void
    /\ arg.id \notin IdsOf(MOCK_DB)
    /\ Len(MOCK_DB) = Cardinality(Kept)
    /\ \A i \in Kept : MOCK_DB[Rank(i)] = preDB[i]
    /\ (arg.id \notin IdsOf(preDB)) => MOCK_DB = preDB
\* a delete of the first of several records
Wit_C9_DeleteFirst ==
  /\ op = "delete"
  /\ Len(preDB) >= 2
  /\ Get(preDB[1], "id") = arg.id
  /\ Len(MOCK_DB) = Len(preDB) - 1

\* C10: the count listPatients returns is the number of stored records
\* that match the search term, the same for every page.
Thm_C10_CountIsFilteredSize ==
  op = "list" =>
    /\ ret.count =
         Cardinality({i \in 1..Len(MOCK_DB) :
                        matchesSearch(MOCK_DB[i], arg.search)})
    /\ \A pg \in Pages :
          listPatients(MOCK_DB, pg, arg.pageSize, arg.search).count = ret.count
\* a search that matches some records, not all, with a page shorter than
\* the count
Wit_C10_CountBeyondPage ==
  /\ op = "list"
  /\ arg.search # <<>>
  /\ 0 < ret.count /\ ret.count < Len(MOCK_DB)
  /\ Len(ret.data) < ret.count

\* the filtered, sorted set of a store, and the number of its pages
Filtered(db, term) == SelectSeq(sortDesc(db), LAMBDA p : matchesSearch(p, term))
Matching(db, term) == {i \in 1..Len(db) : matchesSearch(db[i], term)}
CeilDiv(n, p) == (n + p - 1) \div p
RECURSIVE ConcatPages(_, _, _, _)
ConcatPages(db, k, pageSize, term) ==
  IF k = 0 THEN <<>>
  ELSE ConcatPages(db, k - 1, pageSize, term)
         \o listPatients(db, k, pageSize, term).data

\* C11: with N matching records and page size P, the non-empty pages are
\* pages 1..ceil(N/P), and those pages in order are the filtered, sorted
\* set, no record twice, none left out.
Thm_C11_PagesPartition ==
  op = "list" =>
    LET n == Cardinality(Matching(MOCK_DB, arg.search))
        last == CeilDiv(n, arg.pageSize)
        all == ConcatPages(MOCK_DB, last, arg.pageSize, arg.search)
    IN  /\ ret = listPatients(MOCK_DB, arg.page, arg.pageSize, arg.search)
        /\ \A pg \in 1..(last + 2) :
              (listPatients(MOCK_DB, pg, arg.pageSize, arg.search).data # <<>>)
                <=> (pg <= last)
        /\ all = Filtered(MOCK_DB, arg.search)
        /\ Len(all) = n
        /\ \A i, j \in 1..Len(all) : i # j => all[i] # all[j]
\* the second page of a listing of two matching records, one per page
Wit_C11_SecondPage ==
  /\ op = "list"
  /\ arg.pageSize = 1 /\ arg.page = 2
  /\ ret.count >= 2
  /\ Len(ret.data) = 1

\* C12: for a page (1-based, positive) past the last page listPatients
\* returns an empty data page, count still the filtered-set size, no error.
Thm_C12_PagePastEnd ==
  op = "list" =>
    /\ err = NoError
    /\ (arg.page > CeilDiv(Cardinality(Matching(MOCK_DB, arg.search)),
                           arg.pageSize))
         => /\ ret.data = <<>>
            /\ ret.count = Cardinality(Matching(MOCK_DB, arg.search))
\* a page past the end of a non-empty filtered set
Wit_C12_PastEndNonEmpty ==
  /\ op = "list"
  /\ ret.count >= 1
  /\ arg.page > CeilDiv(ret.count, arg.pageSize)
  /\ ret.data = <<>>

\* C13: listPatients orders records by created_at, latest first, and a
\* record without created_at after every record that has one.
Dated(p) == Truthy(Get(p, "created_at"))
Thm_C13_SortedByCreatedAt ==
  op = "list" =>
    LET all == listPatients(MOCK_DB, 1, Len(MOCK_DB) + 1, arg.search).data
        from == (arg.page - 1) * arg.pageSize
    IN  /\ Len(all) = Cardinality(Matching(MOCK_DB, arg.search))
        /\ \A i \in Matching(MOCK_DB, arg.search) :
              \E k \in 1..Len(all) : all[k] = MOCK_DB[i]
        /\ \A i, j \in 1..Len(all) :
              i < j =>
                /\ Dated(all[j]) => Dated(all[i])
                /\ (Dated(all[i]) /\ Dated(all[j]))
                     => IsoLeq(all[j].created_at, all[i].created_at)
        /\ \A k \in 1..Len(ret.data) : ret.data[k] = all[from + k]
\* a page of two dated records, the later one first, listed from a store
\* whose first record has no created_at and whose later records are in
\* creation order
Wit_C13_UndatedLast ==
  /\ op = "list"
  /\ arg.search = <<>> /\ arg.page = 1 /\ arg.pageSize = 2
  /\ Len(MOCK_DB) = 3
  /\ ~Dated(MOCK_DB[1])
  /\ Dated(MOCK_DB[2]) /\ Dated(MOCK_DB[3])
  /\ IsoLess(MOCK_DB[2].created_at, MOCK_DB[3].created_at)
  /\ ret.data = <<MOCK_DB[3], MOCK_DB[2]>>
  /\ ret.count = 3

\* C14: listPatients returns a record exactly when the term is empty, or
\* the lower-cased term occurs in the lower-cased full_name, or the digits
\* of the term occur in the digits of cpf; "Maria Silva" with cpf
\* 12345678901 is returned for "maria" and "12345678901", not for "999".
Occurs(t, s) ==
  \E k \in 0..(Len(s) - Len(t)) : \A j \in 1..Len(t) : s[k + j] = t[j]
SearchCondition(p, term) ==
  \/ term = <<>>
  \/ Occurs(toLowerCase(term), toLowerCase(p.full_name))
  \/ Occurs(onlyDigits(term), onlyDigits(p.cpf))
Listed(db, term) ==
  LET all == listPatients(db, 1, Len(db) + 1, term).data
  IN  {i \in 1..Len(db) : \E k \in 1..Len(all) : all[k] = db[i]}
Thm_C14_SearchCondition ==
  op = "list" =>
    /\ \A i \in 1..Len(MOCK_DB) :
          (i \in Listed(MOCK_DB, arg.search))
            <=> SearchCondition(MOCK_DB[i], arg.search)
    /\ ret.count = Cardinality(Listed(MOCK_DB, arg.search))
    /\ \A k \in 1..Len(ret.data) :
          \E i \in Listed(MOCK_DB, arg.search) : ret.data[k] = MOCK_DB[i]
    /\ \A i \in 1..Len(MOCK_DB) :
          (MOCK_DB[i].full_name = MariaSilva /\ MOCK_DB[i].cpf = Cpf1) =>
             /\ arg.search \in {TermMaria, Cpf1} => i \in Listed(MOCK_DB, arg.search)
             /\ arg.search = Term999 => i \notin Listed(MOCK_DB, arg.search)
\* a search by CPF over two records that returns the one with that CPF
Wit_C14_CpfSearch ==
  /\ op = "list"
  /\ arg.search = Cpf1
  /\ Len(MOCK_DB) = 2
  /\ ret.count = 1
  /\ Len(ret.data) = 1
  /\ ret.data[1].full_name = MariaSilva
  /\ \E i \in 1..2 : MOCK_DB[i].full_name = AnaLima

\* C15: getPatientById returns the one stored record with the id, or null
\* when there is none, and raises nothing; the edit form that finds no
\* record keeps its default values.
Thm_C15_GetByIdOrNull ==
  /\ op = "getById" =>
       /\ err = NoError
       /\ IF arg.id \in IdsOf(MOCK_DB)
          THEN /\ ret # Null
               /\ Get(ret, "id") = arg.id
               /\ Cardinality({i \in 1..Len(MOCK_DB) : MOCK_DB[i] = ret}) = 1
               /\ Cardinality({i \in 1..Len(MOCK_DB) :
                                 Get(MOCK_DB[i], "id") = arg.id}) = 1
          ELSE ret = Null
  /\ op = "formLoad" =>
       /\ err = NoError
       /\ MOCK_DB = preDB
       /\ IF arg.id \in IdsOf(MOCK_DB)
          THEN \E i \in 1..Len(MOCK_DB) :
                  /\ Get(MOCK_DB[i], "id") = arg.id
                  /\ ret.form.full_name = MOCK_DB[i].full_name
                  /\ ret.form.cpf = MOCK_DB[i].cpf
                  /\ ret.form.birth_date = parseISO(MOCK_DB[i].birth_date)
          ELSE ret.form = DefaultValues
\* the edit form opened on an id that no record of a non-empty store has
Wit_C15_FormOnAbsentId ==
  /\ op = "formLoad"
  /\ arg.id # ""
  /\ arg.id \notin IdsOf(MOCK_DB)
  /\ Len(MOCK_DB) >= 1
  /\ ret.form = DefaultValues

\* C16: listPatients and getPatientById leave the store as it was: the
\* same records, in the same order, with the same values.
Thm_C16_QueriesKeepStore ==
  op \in {"list", "getById"} =>
    /\ MOCK_DB = preDB
    /\ issued = preIssued
    /\ err = NoError
\* a listing of a store whose order is not the listing order
Wit_C16_ListUnsortedStore ==
  /\ op = "list"
  /\ Len(MOCK_DB) >= 2
  /\ sortDesc(preDB) # preDB
  /\ Len(ret.data) >= 1

\* C17: createPatient adds one record at the end of the store and leaves
\* the others as they were; the record it returns has the payload's fields
\* and the assigned id, created_at and updated_at; getPatientById on its id
\* gives that record, and keeps giving the same record for an id across
\* every call that is not an update or a delete of that id.
SystemKeys == {"id", "created_at", "updated_at"}
Thm_C17_CreateAppends ==
  /\ op = "create" =>
       /\ Len(MOCK_DB) = Len(preDB) + 1
       /\ \A i \in 1..Len(preDB) : MOCK_DB[i] = preDB[i]
       /\ MOCK_DB[Len(MOCK_DB)] = ret
       /\ DOMAIN ret = (DOMAIN arg) \cup SystemKeys
       /\ \A k \in (DOMAIN arg) \ SystemKeys : ret[k] = arg[k]
       /\ ret.id \in issued \ preIssued
       /\ ret.created_at = toISOString(now)
       /\ ret.updated_at = toISOString(now)
       /\ getPatientById(MOCK_DB, ret.id) = ret
  /\ \A id \in IdsOf(preDB) :
        (op \in {"update", "delete"} /\ arg.id = id)
          \/ getPatientById(MOCK_DB, id) = getPatientById(preDB, id)
\* a create on a store that holds a record, with a payload that carries an
\* id and timestamps of its own
Wit_C17_CreateSecond ==
  /\ op = "create"
  /\ Len(preDB) >= 1
  /\ Has(arg, "id") /\ Has(arg, "created_at")
  /\ ret.created_at # arg.created_at

\* C19: onlyDigits returns the decimal digits of its input, all of them,
\* in their order, and nothing else; "" for an absent or empty input;
\* applied to its own result it returns that result.
DecimalDigits == {"0", "1", "2", "3", "4", "5", "6", "7", "8", "9"}
Thm_C19_OnlyDigits ==
  op = "onlyDigits" =>
    LET v == IF arg.v = Undefined THEN <<>> ELSE arg.v
        pos == {i \in 1..Len(v) : v[i] \in DecimalDigits}
        out == ret.out
    IN  /\ err = NoError
        /\ Len(out) = Cardinality(pos)
        /\ \A i \in pos : out[Cardinality({j \in pos : j <= i})] = v[i]
        /\ \A k \in 1..Len(out) : out[k] \in DecimalDigits
        /\ (v = <<>>) => (out = <<>>)
        /\ onlyDigits(out) = out
\* a text with a digit between two runs of other characters
Wit_C19_TwoRuns ==
  /\ op = "onlyDigits"
  /\ arg.v = <<"-", "0", ".">>
  /\ ret.out = <<"0">>

\* C20: an id is absent, then active, then absent for good: once its record
\* is deleted no create brings the id back, getPatientById on it returns
\* null and updatePatient on it fails with NotFound.
Retired(db, given) == given \ IdsOf(db)
Thm_C20_DeletedStaysAbsent ==
  /\ IdsOf(MOCK_DB) \subseteq issued
  /\ preIssued \subseteq issued
  /\ \A id \in Retired(preDB, preIssued) :
        /\ id \in Retired(MOCK_DB, issued)
        /\ getPatientById(MOCK_DB, id) = Null
        /\ \A payload \in UpdatePayloadsFor(id) :
              updatePatient(MOCK_DB, payload, now).err = NotFound
        /\ (op = "getById" /\ arg.id = id) => ret = Null
        /\ (op = "update" /\ arg.id = id) => (err = NotFound /\ MOCK_DB = preDB)
        /\ (op = "create") => ret.id # id
  /\ op = "delete" => arg.id \notin IdsOf(MOCK_DB)
\* an update on the id of a record created and deleted before
Wit_C20_UpdateAfterDelete ==
  /\ op = "update"
  /\ arg.id \in Retired(preDB, preIssued)
  /\ err = NotFound

\* C18: with the store written only through the patient form, the cpf and
\* the phone_primary of every stored record consist of decimal digits only
AllDigits(s) == \A i \in 1..Len(s) : s[i] \in DecimalDigits
Thm_C18_StoredDigitsOnly ==
  \A i \in 1..Len(MOCK_DB) :
     /\ Has(MOCK_DB[i], "cpf") /\ Has(MOCK_DB[i], "phone_primary")
     /\ AllDigits(MOCK_DB[i].cpf)
     /\ AllDigits(MOCK_DB[i].phone_primary)

\* a CPF and a phone typed with their mask characters were submitted, and
\* the record created from them holds their digits
Wit_C18_MaskedSubmitted ==
  /\ op = "submit" /\ ret.called = "create"
  /\ ~AllDigits(arg.values.cpf)
  /\ ~AllDigits(arg.values.phone_primary)
  /\ Len(MOCK_DB) = Len(preDB) + 1
  /\ MOCK_DB[Len(MOCK_DB)].cpf = onlyDigits(arg.values.cpf)
  /\ MOCK_DB[Len(MOCK_DB)].phone_primary = onlyDigits(arg.values.phone_primary)

\* C21: every payload the patient form passes to createPatient or
\* updatePatient has a cpf of exactly 11 digits, a phone_primary of at least
\* 10 digits, a responsible_cpf that is absent or exactly 11 digits and a
\* birth_date; a form whose typed values break one of these calls neither
PayloadWellFormed(p) ==
  /\ AllDigits(Get(p, "cpf")) /\ Len(Get(p, "cpf")) = CpfLength
  /\ AllDigits(Get(p, "phone_primary"))
  /\ Len(Get(p, "phone_primary")) >= PhoneMinLength
  /\ \/ Get(p, "responsible_cpf") = Undefined
     \/ /\ AllDigits(Get(p, "responsible_cpf"))
        /\ Len(Get(p, "responsible_cpf")) = CpfLength
  /\ Get(p, "birth_date") # Undefined
InputWellFormed(v) ==
  /\ Truthy(v.cpf) /\ Len(onlyDigits(v.cpf)) = CpfLength
  /\ Truthy(v.phone_primary)
  /\ Len(onlyDigits(v.phone_primary)) >= PhoneMinLength
  /\ ~Truthy(v.responsible_cpf) \/ Len(onlyDigits(v.responsible_cpf)) = CpfLength
  /\ v.birth_date # Undefined
Thm_C21_PayloadWellFormed ==
  op = "submit" =>
    /\ ret.called # "none" => PayloadWellFormed(ret.payload)
    /\ ~InputWellFormed(arg.values) => ret.called = "none"

\* an edit form with the CPF and phone retyped over the mask was saved, and
\* the payload of the update holds their digits
Wit_C21_EditPayload ==
  /\ op = "submit" /\ ret.called = "update" /\ err = NoError
  /\ arg.values.cpf = MaskedCpf2 /\ arg.values.phone_primary = MaskedPhone1
  /\ PayloadWellFormed(ret.payload)
  /\ ret.payload.cpf = Cpf2 /\ ret.payload.phone_primary = Phone1

\* C22: when updatePatient fails with NotFound during a form save, the form
\* shows its error message and the save stops: no success message, no
\* navigation to the list, and the store is left as it was
Thm_C22_NotFoundAbortsSave ==
  (op = "submit" /\ ret.called = "update" /\ arg.id \notin IdsOf(preDB)) =>
    /\ err = NotFound
    /\ ret.toast = ToastError
    /\ ret.toast \notin {ToastCreated, ToastUpdated}
    /\ ~ret.navigated
    /\ MOCK_DB = preDB

\* a valid edit form was saved for a record deleted after it was created
Wit_C22_SaveAfterDelete ==
  /\ op = "submit" /\ ret.called = "update" /\ err = NotFound
  /\ arg.id \in preIssued /\ arg.id \notin IdsOf(preDB)
  /\ ret.toast = ToastError

\* C23: repository operations run one at a time, so two successful
\* updatePatient calls on the same id, one right after the other, leave the
\* record that applying them in call order gives: a field both set has the
\* later call's value, a field only one set has that call's value, and any
\* other field is as it was before the first
TwoUpdates ==
  /\ op = "update" /\ err = NoError
  /\ op' = "update" /\ err' = NoError
  /\ arg'.id = arg.id
InCallOrder ==
  LET base == preDB[findIndex(preDB, arg.id) + 1]
      rec == MOCK_DB'[findIndex(MOCK_DB', arg.id) + 1]
  IN  /\ DOMAIN rec =
           (DOMAIN base) \cup (DOMAIN arg) \cup (DOMAIN arg') \cup {"updated_at"}
      /\ \A k \in (DOMAIN rec) \ {"updated_at"} :
           rec[k] = IF k \in DOMAIN arg' THEN arg'[k]
                    ELSE IF k \in DOMAIN arg THEN arg[k]
                    ELSE base[k]
      /\ rec.updated_at = toISOString(now')
Thm_C23_NoLostUpdate == [][TwoUpdates => InCallOrder]_vars

\* the record carries the name an earlier update set and the city the latest
\* update, which set no name, has just set
Wit_C23_BothUpdatesKept ==
  /\ UpdateOk
  /\ ~Has(arg, "full_name") /\ Has(arg, "address_city")
  /\ ret.full_name = NameX /\ ret.address_city = SaoPaulo
  /\ OldRecord.full_name = NameX /\ ~Has(OldRecord, "address_city")

\* C24: for a non-empty search term without a decimal digit, listPatients
\* returns only records whose full_name contains the term, letter case
\* aside, and counts only those
NoDigitTerm(term) == Truthy(term) /\ onlyDigits(term) = <<>>
NameHas(p, term) == Occurs(toLowerCase(term), toLowerCase(p.full_name))
Cex_C24_NameOnlySearch ==
  (op = "list" /\ NoDigitTerm(arg.search)) =>
    /\ \A k \in 1..Len(ret.data) : NameHas(ret.data[k], arg.search)
    /\ ret.count =
         Cardinality({i \in 1..Len(MOCK_DB) : NameHas(MOCK_DB[i], arg.search)})

\* C25: on the patient list page the current page stays within
\* 1..totalPages, with totalPages = max(1, ceil(count / 10)) of the list
\* result on screen, whatever next-page, previous-page, search, delete and
\* refresh events happened
Cex_C25_PageWithinTotal ==
  /\ currentPage >= 1
  /\ currentPage <= totalPages(queryData.count)

\* C26: when the debounced search term changes the page is reset to 1, and
\* listPatients is not called with the new term and a page left over from
\* the term before
Cex_C26_NewTermOnPageOne ==
  (op = "debounce" /\ arg.to # arg.from) =>
    /\ currentPage = 1
    /\ \A i \in 1..Len(ret.queries) :
         ret.queries[i].search = arg.to => ret.queries[i].page = 1

\* C27: in the patient form a lookup is started only for a postal code of
\* exactly 8 digits, and isFetchingAddress is true exactly while a lookup
\* is in flight, overlapping lookups included
Cex_C27_FlagTracksLookups ==
  /\ \A i \in 1..Len(inFlight) :
        AllDigits(inFlight[i]) /\ Len(inFlight[i]) = CepLength
  /\ (op = "cepBlur" /\ ret.started) =>
        Len(onlyDigits(formValues.address_zip_code)) = CepLength
  /\ isFetchingAddress <=> inFlight # <<>>

====
